---- MODULE Spec2Model ----
(***************************************************************************)
(* A model of the sb command line tool (elidholm/sb-cli).                  *)
(*                                                                         *)
(* One run of the tool executes one command.  The model follows the        *)
(* command's code statement by statement: every call into the git library  *)
(* or the file system is one step whose outcome (a value, or the kind of   *)
(* exception it raises) is drawn from the outcomes the except clauses of   *)
(* the code tell apart.  The calls made and the lines printed are logged,  *)
(* in order, in `calls' and `out'.                                         *)
(***************************************************************************)
EXTENDS Integers, Sequences, FiniteSets, TLC

VARIABLES
    cmd,            \* the command being run ("" before the command line is dispatched)
    pc,             \* position inside the command's code
    argv,           \* the command's arguments
    repo,           \* the vault's git working tree, as the git library reports it
    fs,             \* the files and folders of the vault the command looks at
    calls,          \* the library calls made so far, each with its outcome
    out,            \* the lines printed so far
    changed_files,  \* sync's local list changed_files
    exit_code,      \* typer.Exit code of the finished command; Running until then
    uncaught,       \* kind of the exception that left the command function, "" if none
    config,         \* load_config's local config (the Config object it builds)
    current         \* find_vault_root's local current

vars == <<cmd, argv, pc, repo, fs, calls, out, changed_files, exit_code, uncaught,
          config, current>>

----
\* Bounds of the model

\* largest number of index-vs-working-tree diff entries in the repository
MaxDiff == 11
\* largest number of untracked files in the repository
MaxUntracked == 11
\* largest number of files already staged in the index before the run
MaxStaged == 1

----
\* Program constants

\* sb.py:75  changed_files[:10]
ShowLimit == 10

\* exit_code while the command has not finished
Running == -1

----
\* Values

NoPath == <<>>

\* One printed line: which message, and the number / path interpolated into it.
Line(m, k, p) == [msg |-> m, n |-> k, path |-> p]

Say(m) == Line(m, 0, NoPath)

\* One library call and its outcome: "ok" or the kind of the exception raised,
\* and the list it returned, when it returns one.
CallV(o, r, v) == [op |-> o, res |-> r, val |-> v]

Call(o, r) == CallV(o, r, <<>>)

\* the a_path of the i-th diff entry, the j-th untracked file
DiffEntry(i) == <<"a_path", i>>

UntrackedFile(j) == <<"untracked", j>>

\* Exception kinds the handlers of sync tell apart (sb.py:88,96,102,110,117-123).
\* typer.Exit is click's Exit, a RuntimeError, hence an Exception.
GitExc == {"GitCommandError", "Exception"}

RepoExc == {"InvalidGitRepositoryError"} \cup GitExc

Min(a, b) == IF a < b THEN a ELSE b

----
\* The git working tree (GitPython's view of it)

\* Repo.is_dirty(untracked_files=True): staged changes, working-tree changes
\* against the index, or untracked files.
is_dirty(r) == r.staged > 0 \/ r.diff # <<>> \/ r.untracked # <<>>

\* git add -A: every working-tree change and untracked file goes to the index.
StageAll(r) ==
    [r EXCEPT !.staged = r.staged + Len(r.diff) + Len(r.untracked),
              !.diff = <<>>, !.untracked = <<>>]

\* index.commit(message): the index becomes a new commit on the local branch;
\* the commit holds every file whose changes were in the index.
Commit(r) ==
    [r EXCEPT !.staged = 0, !.commits = r.commits + 1, !.committed = r.staged]

\* Variant of AbortRebase: the abort never ends the rebase in progress.
AbortRebaseLeavesRebase(r, res) == r

\* git rebase --abort: a successful abort ends the rebase in progress and puts
\* the branch back where it was; a failed one changes nothing.
AbortRebase(r, res) == IF res = "ok" THEN [r EXCEPT !.rebasing = FALSE] ELSE r

Repos ==
    { [staged |-> s,
       diff |-> [i \in 1..d |-> DiffEntry(i)],
       untracked |-> [j \in 1..u |-> UntrackedFile(j)],
       commits |-> 0, committed |-> 0, rebasing |-> FALSE] :
      s \in 0..MaxStaged, d \in 0..MaxDiff, u \in 0..MaxUntracked }

----
\* Shared pieces of the commands

\* What load_config can do to its caller: return a configuration, raise
\* InvalidVaultError (config.py:73,78,81), or let the YAML parser's exception
\* through (config.py:50).
LoadOutcomes == {"ok", "InvalidVaultError", "Exception"}

\* try: load_config(...) except InvalidVaultError: print; raise typer.Exit(code=1)
\* The first statement of every command.
LoadConfig(c, r, next) ==
    /\ cmd = c /\ pc = "start"
    /\ calls' = Append(calls, Call("load_config", r))
    /\ IF r = "ok"
       THEN /\ pc' = next
            /\ UNCHANGED <<out, exit_code, uncaught>>
       ELSE IF r = "InvalidVaultError"
       THEN /\ pc' = "done"
            /\ out' = Append(out, Say("InvalidVaultError"))
            /\ exit_code' = 1
            /\ UNCHANGED uncaught
       ELSE /\ pc' = "done"
            /\ uncaught' = r
            /\ UNCHANGED <<out, exit_code>>
    /\ UNCHANGED <<cmd, argv, config, current, repo, fs, changed_files>>

----
\* sync  (sb.py:33-125)

\* Variant of OuterMessage: no clause for InvalidGitRepositoryError.
OuterMessageNoInvalidRepo(kind) ==
    IF kind = "GitCommandError" THEN "Git command failed" ELSE "Unexpected error"

\* The except clauses of the outer try, in order (sb.py:117-125).
OuterMessage(kind) ==
    IF kind = "InvalidGitRepositoryError" THEN "not a valid git repository"
    ELSE IF kind = "GitCommandError" THEN "Git command failed"
    ELSE "Unexpected error"

\* An exception of the given kind leaves the body of the outer try after the
\* lines `said' were printed: the matching outer handler prints its message
\* and raises typer.Exit(code=1).
SyncRaise(kind, said) ==
    /\ out' = out \o said \o <<Say(OuterMessage(kind))>>
    /\ exit_code' = 1
    /\ pc' = "done"
    /\ UNCHANGED <<cmd, argv, config, current, fs, uncaught>>

\* A step that prints `said' and goes on to the statement at `next'.
SyncGoto(next, said) ==
    /\ out' = out \o said
    /\ pc' = next
    /\ UNCHANGED <<cmd, argv, config, current, fs, exit_code, uncaught>>

\* sb.py:44-50
SyncLoadConfig ==
    /\ \E r \in LoadOutcomes : LoadConfig("sync", r, "sync_print")

\* sb.py:50
SyncAnnounce ==
    /\ cmd = "sync" /\ pc = "sync_print"
    /\ SyncGoto("open", <<Say("Syncing Second Brain Vault")>>)
    /\ UNCHANGED <<repo, calls, changed_files>>

\* sb.py:53  git_repo = git.Repo(config.vault_path)
SyncOpenRepo ==
    /\ cmd = "sync" /\ pc = "open"
    /\ \E r \in {"ok"} \cup RepoExc :
        /\ calls' = Append(calls, Call("Repo", r))
        /\ IF r = "ok" THEN SyncGoto("active_branch", <<>>) ELSE SyncRaise(r, <<>>)
    /\ UNCHANGED <<repo, changed_files>>

\* sb.py:55-56  current_branch = git_repo.active_branch.name
SyncActiveBranch ==
    /\ cmd = "sync" /\ pc = "active_branch"
    /\ \E r \in {"ok"} \cup GitExc :
        /\ calls' = Append(calls, Call("active_branch", r))
        /\ IF r = "ok"
           THEN SyncGoto("is_dirty", <<Say("Current local branch")>>)
           ELSE SyncRaise(r, <<>>)
    /\ UNCHANGED <<repo, changed_files>>

\* Variant of DirtyBranch: a clean tree ends the command.
DirtyBranchCleanStops(dirty) ==
    IF dirty THEN SyncGoto("collect", <<>>)
    ELSE /\ out' = Append(out, Say("No changes to commit."))
         /\ exit_code' = 0
         /\ pc' = "done"
         /\ UNCHANGED <<cmd, argv, config, current, fs, uncaught>>

\* The branch of `if git_repo.is_dirty(untracked_files=True)' (sb.py:58,79-80).
DirtyBranch(dirty) ==
    IF dirty THEN SyncGoto("collect", <<>>)
    ELSE SyncGoto("fetch", <<Say("No changes to commit.")>>)

\* sb.py:58, 79-80
SyncIsDirty ==
    /\ cmd = "sync" /\ pc = "is_dirty"
    /\ \E r \in {"ok"} \cup GitExc :
        IF r = "ok"
        THEN /\ calls' = Append(calls, Call("is_dirty", IF is_dirty(repo) THEN "True" ELSE "False"))
             /\ DirtyBranch(is_dirty(repo))
        ELSE /\ calls' = Append(calls, Call("is_dirty", r))
             /\ SyncRaise(r, <<>>)
    /\ UNCHANGED <<repo, changed_files>>

\* Variant of ChangedFiles: untracked files are added only when nothing is modified.
ChangedFilesElif(diff, untracked) == IF diff # <<>> THEN diff ELSE untracked

\* sb.py:59-63  the list built from index.diff(None) and untracked_files
ChangedFiles(diff, untracked) ==
    (IF diff # <<>> THEN diff ELSE <<>>) \o (IF untracked # <<>> THEN untracked ELSE <<>>)

\* sb.py:59-65
SyncCollect ==
    /\ cmd = "sync" /\ pc = "collect"
    /\ \E rd \in {"ok"} \cup GitExc, ru \in {"ok"} \cup GitExc :
        IF rd # "ok"
        THEN /\ calls' = Append(calls, Call("index.diff", rd))
             /\ SyncRaise(rd, <<>>)
             /\ UNCHANGED changed_files
        ELSE IF ru # "ok"
        THEN /\ calls' = calls \o <<CallV("index.diff", "ok", repo.diff), Call("untracked_files", ru)>>
             /\ SyncRaise(ru, <<>>)
             /\ changed_files' = ChangedFiles(repo.diff, <<>>)
        ELSE /\ calls' = calls \o <<CallV("index.diff", "ok", repo.diff),
                                 CallV("untracked_files", "ok", repo.untracked)>>
             /\ changed_files' = ChangedFiles(repo.diff, repo.untracked)
             /\ SyncGoto("add", <<Line("Staging", Len(changed_files'), NoPath)>>)
    /\ UNCHANGED repo

\* sb.py:66  git_repo.git.add(A=True)
SyncStage ==
    /\ cmd = "sync" /\ pc = "add"
    /\ \E r \in {"ok"} \cup GitExc :
        /\ calls' = Append(calls, Call("add", r))
        /\ IF r = "ok"
           THEN /\ repo' = StageAll(repo)
                /\ SyncGoto("commit", <<>>)
           ELSE /\ UNCHANGED repo
                /\ SyncRaise(r, <<>>)
    /\ UNCHANGED changed_files

\* Variant of ShownFiles: the list is not cut.
ShownFilesAll(files) == files

\* sb.py:75-76  for f in changed_files[:10]: print(f"   - {f}")
ShownFiles(files) == SubSeq(files, 1, Min(Len(files), ShowLimit))

\* sb.py:73-78  the listing printed after the commit
Listing(files) ==
    IF files = <<>> THEN <<>>
    ELSE <<Say("Changed files:")>>
         \o [i \in 1..Len(ShownFiles(files)) |-> Line("-", 0, ShownFiles(files)[i])]
         \o (IF Len(files) > ShowLimit
             THEN <<Line("... and more", Len(files) - ShowLimit, NoPath)>>
             ELSE <<>>)

\* sb.py:69-71  the lines printed right after index.commit returned
CommitReport(files) ==
    <<Line("Committed", Len(files), NoPath), Say("Message"), Say("Commit hash")>>

\* sb.py:68-78  commit = git_repo.index.commit(message) and its report
SyncCommit ==
    /\ cmd = "sync" /\ pc = "commit"
    /\ \E r \in {"ok"} \cup GitExc :
        /\ calls' = Append(calls, Call("commit", r))
        /\ IF r = "ok"
           THEN /\ repo' = Commit(repo)
                /\ SyncGoto("fetch", CommitReport(changed_files) \o Listing(changed_files))
           ELSE /\ UNCHANGED repo
                /\ SyncRaise(r, <<>>)
    /\ UNCHANGED changed_files

\* Variant of FetchFailed: the handler reports the failure and does not raise.
FetchFailedSwallowed(said) ==
    SyncGoto("rebase", said \o <<Say("Failed to fetch from remote")>>)

\* sb.py:88-90  except Exception: print the fetch failure, raise typer.Exit(code=1);
\* the Exit then meets the handlers of the outer try.
FetchFailed(said) ==
    SyncRaise("typer.Exit", said \o <<Say("Failed to fetch from remote")>>)

\* sb.py:82-90  origin = git_repo.remote(name="origin"); origin.fetch()
SyncFetch ==
    /\ cmd = "sync" /\ pc = "fetch"
    /\ \E rr \in {"ok"} \cup GitExc, rf \in {"ok"} \cup GitExc :
        IF rr # "ok"
        THEN /\ calls' = Append(calls, Call("remote", rr))
             /\ FetchFailed(<<Say("Fetching from remote...")>>)
        ELSE IF rf # "ok"
        THEN /\ calls' = calls \o <<Call("remote", "ok"), Call("fetch", rf)>>
             /\ FetchFailed(<<Say("Fetching from remote...")>>)
        ELSE /\ calls' = calls \o <<Call("remote", "ok"), Call("fetch", "ok")>>
             /\ SyncGoto("rebase", <<Say("Fetching from remote..."), Say("Fetch complete")>>)
    /\ UNCHANGED <<repo, changed_files>>

\* sb.py:96  except GitCommandError
RebaseCaught(kind) == kind = "GitCommandError"

\* sb.py:92-98  git_repo.git.rebase(f"origin/{branch}")
SyncRebase ==
    /\ cmd = "sync" /\ pc = "rebase"
    /\ \E r \in {"ok"} \cup GitExc :
        /\ calls' = Append(calls, Call("rebase", r))
        \* a rebase that ran through leaves none in progress; one that failed
        \* stopped in the middle (a conflict) or never started (git refused)
        /\ \E left \in (IF r = "ok" THEN {FALSE} ELSE BOOLEAN) :
               repo' = [repo EXCEPT !.rebasing = left]
        /\ IF r = "ok"
           THEN SyncGoto("push", <<Say("Rebasing"), Say("Rebase successful")>>)
           ELSE IF RebaseCaught(r)
           THEN SyncGoto("abort", <<Say("Rebasing"), Say("Rebase failed"),
                                    Say("Attempting to abort rebase...")>>)
           ELSE SyncRaise(r, <<Say("Rebasing")>>)
    /\ UNCHANGED changed_files

\* Variant of AfterAbort: the rebase handler ends without raising.
AfterAbortContinues(said) == SyncGoto("push", said)

\* sb.py:104  raise typer.Exit(code=1) from exc, after the abort attempt
AfterAbort(said) == SyncRaise("typer.Exit", said)

\* Variant of AbortReport: a failed abort is not told apart from a successful one.
AbortReportNoWarning(r) == <<Say("Rebase aborted.")>>

\* sb.py:101-103  the line printed after the abort attempt
AbortReport(r) ==
    IF r = "ok" THEN <<Say("Rebase aborted.")>> ELSE <<Say("Failed to abort rebase")>>

\* sb.py:99-104  git_repo.git.rebase("--abort"), inside the rebase handler
SyncRebaseAbort ==
    /\ cmd = "sync" /\ pc = "abort"
    /\ \E r \in {"ok"} \cup GitExc :
        /\ calls' = Append(calls, Call("rebase --abort", r))
        /\ repo' = AbortRebase(repo, r)
        /\ AfterAbort(AbortReport(r))
    /\ UNCHANGED changed_files

\* Variant of PushFailed: the handler tries the push again.
PushFailedRetry(said) ==
    SyncGoto("push", said \o <<Say("Push failed")>>)

\* Variant of PushFailed: the handler reports the failure and does not raise.
PushFailedSwallowed(said) ==
    SyncGoto("succeed", said \o <<Say("Push failed"),
                                   Say("You may need to pull or force push manually.")>>)

\* sb.py:110-113  except GitCommandError: print the push failure, raise typer.Exit(code=1)
PushFailed(said) ==
    SyncRaise("typer.Exit", said \o <<Say("Push failed"),
                                      Say("You may need to pull or force push manually.")>>)

\* sb.py:106-113  origin.push(refspec=f"{current_branch}:{branch}")
SyncPush ==
    /\ cmd = "sync" /\ pc = "push"
    /\ \E r \in {"ok"} \cup GitExc :
        /\ calls' = Append(calls, Call("push", r))
        /\ IF r = "ok"
           THEN SyncGoto("succeed", <<Say("Pushing"), Say("Push successful")>>)
           ELSE IF r = "GitCommandError"
           THEN PushFailed(<<Say("Pushing")>>)
           ELSE SyncRaise(r, <<Say("Pushing")>>)
    /\ UNCHANGED <<repo, changed_files>>

\* sb.py:115  the end of the try body: the command returns
SyncSucceed ==
    /\ cmd = "sync" /\ pc = "succeed"
    /\ out' = Append(out, Say("All operations completed successfully!"))
    /\ exit_code' = 0
    /\ pc' = "done"
    /\ UNCHANGED <<cmd, argv, config, current, repo, fs, calls, changed_files, uncaught>>

----
\* sync, assembled

Sync ==
    \/ SyncLoadConfig \/ SyncAnnounce \/ SyncOpenRepo \/ SyncActiveBranch
    \/ SyncIsDirty \/ SyncCollect \/ SyncStage \/ SyncCommit
    \/ SyncFetch \/ SyncRebase \/ SyncRebaseAbort \/ SyncPush \/ SyncSucceed

----
\* The Bible table  (bible.py:26-96)

KJV_BIBLE_BOOKS == <<
    <<"Genesis", 50>>, <<"Exodus", 40>>, <<"Leviticus", 27>>, <<"Numbers", 36>>,
    <<"Deuteronomy", 34>>, <<"Joshua", 24>>, <<"Judges", 21>>, <<"Ruth", 4>>,
    <<"1 Samuel", 31>>, <<"2 Samuel", 24>>, <<"1 Kings", 22>>, <<"2 Kings", 25>>,
    <<"1 Chronicles", 29>>, <<"2 Chronicles", 36>>, <<"Ezra", 10>>, <<"Nehemiah", 13>>,
    <<"Esther", 10>>, <<"Job", 42>>, <<"Psalms", 150>>, <<"Proverbs", 31>>,
    <<"Ecclesiastes", 12>>, <<"Song of Solomon", 8>>, <<"Isaiah", 66>>, <<"Jeremiah", 52>>,
    <<"Lamentations", 5>>, <<"Ezekiel", 48>>, <<"Daniel", 12>>, <<"Hosea", 14>>,
    <<"Joel", 3>>, <<"Amos", 9>>, <<"Obadiah", 1>>, <<"Jonah", 4>>,
    <<"Micah", 7>>, <<"Nahum", 3>>, <<"Habakkuk", 3>>, <<"Zephaniah", 3>>,
    <<"Haggai", 2>>, <<"Zechariah", 14>>, <<"Malachi", 4>>, <<"Matthew", 28>>,
    <<"Mark", 16>>, <<"Luke", 24>>, <<"John", 21>>, <<"Acts", 28>>,
    <<"Romans", 16>>, <<"1 Corinthians", 16>>, <<"2 Corinthians", 13>>, <<"Galatians", 6>>,
    <<"Ephesians", 6>>, <<"Philippians", 4>>, <<"Colossians", 4>>, <<"1 Thessalonians", 5>>,
    <<"2 Thessalonians", 3>>, <<"1 Timothy", 6>>, <<"2 Timothy", 4>>, <<"Titus", 3>>,
    <<"Philemon", 1>>, <<"Hebrews", 13>>, <<"James", 5>>, <<"1 Peter", 5>>,
    <<"2 Peter", 3>>, <<"1 John", 5>>, <<"2 John", 1>>, <<"3 John", 1>>,
    <<"Jude", 1>>, <<"Revelation", 22>>
>>

\* str.lower() of the names of KJV_BIBLE_BOOKS, entry by entry
KJV_LOWER == <<
    "genesis", "exodus", "leviticus", "numbers", "deuteronomy", "joshua",
    "judges", "ruth", "1 samuel", "2 samuel", "1 kings", "2 kings",
    "1 chronicles", "2 chronicles", "ezra", "nehemiah", "esther", "job",
    "psalms", "proverbs", "ecclesiastes", "song of solomon", "isaiah", "jeremiah",
    "lamentations", "ezekiel", "daniel", "hosea", "joel", "amos",
    "obadiah", "jonah", "micah", "nahum", "habakkuk", "zephaniah",
    "haggai", "zechariah", "malachi", "matthew", "mark", "luke",
    "john", "acts", "romans", "1 corinthians", "2 corinthians", "galatians",
    "ephesians", "philippians", "colossians", "1 thessalonians", "2 thessalonians", "1 timothy",
    "2 timothy", "titus", "philemon", "hebrews", "james", "1 peter",
    "2 peter", "1 john", "2 john", "3 john", "jude", "revelation"
>>

\* Book names as a user may type them that are not spelled as in the table,
\* each with its str.lower().
OtherSpellings == <<
    <<"genesis", "genesis">>, <<"GENESIS", "genesis">>, <<"psalms", "psalms">>,
    <<"1 john", "1 john">>, <<"revelation", "revelation">>, <<"Enoch", "enoch">>,
    <<"", "">>
>>

BookNames == {KJV_BIBLE_BOOKS[i][1] : i \in DOMAIN KJV_BIBLE_BOOKS}

\* str.lower()
lower(s) ==
    IF s \in BookNames
    THEN KJV_LOWER[CHOOSE i \in DOMAIN KJV_BIBLE_BOOKS : KJV_BIBLE_BOOKS[i][1] = s]
    ELSE IF \E i \in DOMAIN OtherSpellings : OtherSpellings[i][1] = s
    THEN OtherSpellings[CHOOSE i \in DOMAIN OtherSpellings : OtherSpellings[i][1] = s][2]
    ELSE s

\* dict(KJV_BIBLE_BOOKS)[book]; the caller has checked that book is a key
ChaptersOf(book) ==
    KJV_BIBLE_BOOKS[CHOOSE i \in DOMAIN KJV_BIBLE_BOOKS : KJV_BIBLE_BOOKS[i][1] = book][2]

\* bible.py:99-102.  The value returned ("True", "False"), or "KeyError" when the
\* subscription dict(KJV_BIBLE_BOOKS)[book] is reached with a book that is not
\* spelled as in the table.  `1 <= chapter <= d[book]' evaluates d[book] only
\* when 1 <= chapter holds.
_is_valid_chapter(book, chapter) ==
    LET all_books == {lower(KJV_BIBLE_BOOKS[i][1]) : i \in DOMAIN KJV_BIBLE_BOOKS}
    IN  IF lower(book) \notin all_books THEN "False"
        ELSE IF ~(1 <= chapter) THEN "False"
        ELSE IF book \notin BookNames THEN "KeyError"
        ELSE IF chapter <= ChaptersOf(book) THEN "True"
        ELSE "False"

----
\* The note commands: shared steps

\* The command goes on to the statement at `next' after printing `said'.
NoteGoto(next, said) ==
    /\ out' = out \o said
    /\ pc' = next
    /\ UNCHANGED <<cmd, argv, config, current, repo, changed_files, exit_code, uncaught>>

\* The command ends: raise typer.Exit(code), or the function returns (code 0).
NoteExit(code, said) ==
    /\ out' = out \o said
    /\ exit_code' = code
    /\ pc' = "done"
    /\ UNCHANGED <<cmd, argv, config, current, repo, changed_files, uncaught>>

\* An exception raised outside every try block leaves the command function.
NoteCrash(kind) ==
    /\ uncaught' = kind
    /\ pc' = "done"
    /\ UNCHANGED <<cmd, argv, config, current, repo, changed_files, out, exit_code>>

\* <folder>.mkdir(parents=True, exist_ok=True), outside every try block
Mkdir(c, next) ==
    /\ cmd = c /\ pc = "mkdir"
    /\ \E r \in {"ok", "OSError"} :
        /\ calls' = Append(calls, Call("mkdir", r))
        /\ IF r = "ok" THEN NoteGoto(next, <<>>) ELSE NoteCrash(r)
    /\ UNCHANGED fs

\* if note_path.exists(): print "... already exists"; raise typer.Exit(code=0)
CheckExistsOverwrites(c, next) ==
    /\ cmd = c /\ pc = "exists"
    /\ calls' = Append(calls, Call("exists", IF fs.note # "absent" THEN "True" ELSE "False"))
    /\ NoteGoto(next, <<>>)
    /\ UNCHANGED fs

CheckExists(c, next) ==
    /\ cmd = c /\ pc = "exists"
    /\ calls' = Append(calls, Call("exists", IF fs.note # "absent" THEN "True" ELSE "False"))
    /\ IF fs.note # "absent"
       THEN NoteExit(0, <<Say("already exists")>>)
       ELSE NoteGoto(next, <<>>)
    /\ UNCHANGED fs

\* try: with note_path.open("w") as f: f.write(content)
\* except Exception: print "Failed to create ..."; raise typer.Exit(code=1)
\* then print "... created: <relative path>" and return.
\* A failed write leaves no file or a partial one.
WriteNote(c) ==
    /\ cmd = c /\ pc = "write"
    /\ \E r \in {"ok", "Exception"} :
        /\ calls' = Append(calls, Call("write", r))
        /\ IF r = "ok"
           THEN /\ fs' = [fs EXCEPT !.note = "new"]
                /\ NoteExit(0, <<Say("created")>>)
           ELSE /\ \E left \in {"absent", "partial"} : fs' = [fs EXCEPT !.note = left]
                /\ NoteExit(1, <<Say("Failed to create")>>)

----
\* new journal daily  (journal.py:367-453)

DailyLoadConfig == \E r \in LoadOutcomes : LoadConfig("daily", r, "mkdir")

\* journal.py:384-385
DailyMkdir == Mkdir("daily", "exists")

\* journal.py:387-392
DailyCheckExists == CheckExists("daily", "write")

\* journal.py:394-453
DailyWrite == WriteNote("daily")

----
\* new journal monthly  (journal.py:25-237)

MonthlyLoadConfig == \E r \in LoadOutcomes : LoadConfig("monthly", r, "mkdir")

\* journal.py:42-43
MonthlyMkdir == Mkdir("monthly", "exists")

\* journal.py:45-50
MonthlyCheckExists == CheckExists("monthly", "write")

\* journal.py:52-237
MonthlyWrite == WriteNote("monthly")

----
\* new journal weekly  (journal.py:240-364)

WeeklyLoadConfig == \E r \in LoadOutcomes : LoadConfig("weekly", r, "mkdir")

\* journal.py:257-258
WeeklyMkdir == Mkdir("weekly", "exists")

\* journal.py:260-265
WeeklyCheckExists == CheckExists("weekly", "inbox")

\* journal.py:269-275.  inbox_files is assigned only inside
\*   if inbox_path.exists() and inbox_path.is_dir():
\* and read right after it, outside every try block.
WeeklyInbox ==
    /\ cmd = "weekly" /\ pc = "inbox"
    /\ calls' = Append(calls, Call("inbox exists", IF fs.inbox THEN "True" ELSE "False"))
    /\ IF fs.inbox THEN NoteGoto("write", <<>>) ELSE NoteCrash("UnboundLocalError")
    /\ UNCHANGED fs

\* journal.py:277-364
WeeklyWrite == WriteNote("weekly")

----
\* new bible chapter  (bible.py:294-359)

ChapterLoadConfig == \E r \in LoadOutcomes : LoadConfig("chapter", r, "validate")

\* bible.py:310-312, outside every try block
ChapterValidate ==
    /\ cmd = "chapter" /\ pc = "validate"
    /\ LET v == _is_valid_chapter(argv.book, argv.chapter)
       IN  /\ calls' = Append(calls, Call("_is_valid_chapter", v))
           /\ IF v = "KeyError" THEN NoteCrash("KeyError")
              ELSE IF v = "False" THEN NoteExit(1, <<Say("is not a valid chapter of the Bible")>>)
              ELSE NoteGoto("mkdir", <<>>)
    /\ UNCHANGED fs

\* bible.py:314-315
ChapterMkdir == Mkdir("chapter", "exists")

\* bible.py:317-322
ChapterCheckExists == CheckExists("chapter", "write")

\* bible.py:324-359
ChapterWrite == WriteNote("chapter")

----
\* new empty  (new.py:44-109)

\* utils.py:17  def daily_exists(date, daily_path): two required parameters
DailyExistsParams == 2

\* Calling a Python function with the wrong number of positional arguments
\* raises TypeError before its body runs.
PyCall(params, args) == IF Len(args) = params THEN "called" ELSE "TypeError"

EmptyLoadConfig == \E r \in LoadOutcomes : LoadConfig("empty", r, "mkdir")

\* new.py:62-70  inbox_path.mkdir(exist_ok=True), outside every try block
EmptyMkdir ==
    /\ cmd = "empty" /\ pc = "mkdir"
    /\ \E r \in {"ok", "OSError"} :
        /\ calls' = Append(calls, Call("mkdir", r))
        /\ IF r = "ok"
           THEN /\ fs' = [fs EXCEPT !.inbox = TRUE]
                /\ NoteGoto("pick", <<>>)
           ELSE /\ UNCHANGED fs
                /\ NoteCrash(r)

\* new.py:72-80  the first of <name>.md, <name>_1.md, <name>_2.md, ... that
\* does not exist; the first fs.taken of these names exist.  Each probe is
\* logged with the suffix it tried (0 for <name>.md).
EmptyPickPathRefuses ==
    /\ cmd = "empty" /\ pc = "pick"
    /\ calls' = Append(calls, CallV("exists", IF 0 < fs.taken THEN "True" ELSE "False", <<0>>))
    /\ IF 0 < fs.taken
       THEN NoteExit(0, <<Say("already exists")>>)
       ELSE NoteGoto("daily_exists", <<>>)
    /\ UNCHANGED fs

EmptyPickPath ==
    /\ cmd = "empty" /\ pc = "pick"
    /\ calls' = calls \o [i \in 1..(fs.taken + 1) |->
                            CallV("exists", IF i <= fs.taken THEN "True" ELSE "False",
                                  <<i - 1>>)]
    /\ NoteGoto("daily_exists", <<>>)
    /\ UNCHANGED fs

\* new.py:82-109.  Line 86 calls daily_exists(daily_path), outside every try
\* block; what follows the call runs only if the call is made.
EmptyDailyExists ==
    /\ cmd = "empty" /\ pc = "daily_exists"
    /\ LET r == PyCall(DailyExistsParams, <<"daily_path">>)
       IN  /\ calls' = Append(calls, Call("daily_exists", r))
           /\ IF r = "TypeError"
              THEN /\ NoteCrash("TypeError")
                   /\ UNCHANGED fs
              ELSE /\ fs' = [fs EXCEPT !.daily = TRUE, !.note = "new"]
                   /\ NoteExit(0, <<Say("created")>>)

----
\* info  (sb.py:129-164)

InfoLoadConfig == \E r \in LoadOutcomes : LoadConfig("info", r, "report")

\* sb.py:140-164
InfoReport ==
    /\ cmd = "info" /\ pc = "report"
    /\ out' = out \o <<Say("Second Brain Vault"), Say("Folder Structure:"),
                       Say(IF fs.inbox THEN "Inbox" ELSE "folder is missing!")>>
    /\ exit_code' = 0
    /\ pc' = "done"
    /\ UNCHANGED <<cmd, argv, config, current, repo, fs, calls, changed_files, uncaught>>

----
\* Paths and the file system, as pathlib shows them to config.py and utils.py

\* config.py:23
VAULT_NAME == "second-brain"

\* config.py:80  the entry that marks an Obsidian vault
Marker == ".obsidian"

\* the user's home directory, what a leading "~" stands for
Home == <<"home", "u">>

\* A path is the sequence of its components; <<>> is the file system root.
\* Optional[Path] is None or a path.
None == <<>>

Some(p) == <<p>>

\* Path.parent: the root is its own parent
parent(p) == IF p = <<>> THEN p ELSE SubSeq(p, 1, Len(p) - 1)

\* Path.name: the last component, "" for the root
name(p) == IF p = <<>> THEN "" ELSE p[Len(p)]

\* Path.expanduser
expanduser(p) == IF p # <<>> /\ p[1] = "~" THEN Home \o Tail(p) ELSE p

\* Path.exists, Path.is_dir in the file system f
exists(f, p) == p \in f.dirs \cup f.files

is_dir(f, p) == p \in f.dirs

\* p, its parent, ... up to the root
Ancestors(p) == {SubSeq(p, 1, k) : k \in 0..Len(p)}

----
\* Config.load and load_config  (config.py:28-83)

\* Config(): vault_path defaults to None (config.py:31)
DefaultConfig == [vault_path |-> None]

\* config.py:67  if not config.vault_path: ... find_vault_root(VAULT_NAME)
\* A Path is always true, so only None is false.  The statement to run next.
AfterLoadAlwaysFinds(c) == "find"

AfterLoad(c) == IF c.vault_path = None THEN "find" ELSE "override"

\* config.py:69-70  if vault_path: config.vault_path = vault_path
OverriddenOnlyIfUnset(c, vault_path) ==
    IF vault_path # None /\ c.vault_path = None
    THEN [c EXCEPT !.vault_path = vault_path] ELSE c

Overridden(c, vault_path) ==
    IF vault_path # None THEN [c EXCEPT !.vault_path = vault_path] ELSE c

VaultOk(p) == [kind |-> "ok", msg |-> "", path |-> p]

InvalidVault(m, p) == [kind |-> "InvalidVaultError", msg |-> m, path |-> p]

\* config.py:72-83  the checks on the resolved path, in the code's order
CheckVaultNoMarker(f, c) ==
    IF c.vault_path = None
    THEN InvalidVault("No second-brain vault found.", NoPath)
    ELSE LET p == expanduser(c.vault_path[1])
         IN  IF ~exists(f, p) \/ ~is_dir(f, p)
             THEN InvalidVault("Invalid vault path:", p)
             ELSE VaultOk(p)

CheckVault(f, c) ==
    IF c.vault_path = None
    THEN InvalidVault("No second-brain vault found.", NoPath)
    ELSE LET p == expanduser(c.vault_path[1])
         IN  IF ~exists(f, p) \/ ~is_dir(f, p)
             THEN InvalidVault("Invalid vault path:", p)
             ELSE IF ~exists(f, Append(p, Marker))
             THEN InvalidVault("is not a valid Obsidian vault.", p)
             ELSE VaultOk(p)

\* load_config ends: it returns config, or an exception leaves it.
LoadConfigEnds(kind, m, p) ==
    /\ calls' = Append(calls, CallV("load_config", kind, <<m, p>>))
    /\ uncaught' = IF kind = "ok" THEN "" ELSE kind
    /\ pc' = "done"

\* config.py:66  config = Config.load(config_file.expanduser()) or Config()
\* Config.load (config.py:37-50): a missing file is reported and gives None;
\* parse_yaml_file_as raises on a file that is not valid YAML for Config.
LoadFile ==
    /\ cmd = "load_config" /\ pc = "start"
    /\ LET file == fs.config_file
       IN  IF file.state = "invalid"
           THEN /\ LoadConfigEnds("Exception", "", NoPath)
                /\ UNCHANGED <<out, config>>
           ELSE /\ out' = IF file.state = "missing"
                          THEN Append(out, Say("not found. Using defaults."))
                          ELSE out
                /\ config' = IF file.state = "missing"
                             THEN DefaultConfig
                             ELSE [vault_path |-> file.vault_path]
                /\ pc' = AfterLoad(config')
                /\ UNCHANGED <<calls, uncaught>>
    /\ UNCHANGED <<cmd, argv, fs, repo, changed_files, exit_code, current>>

\* config.py:69-70
Override ==
    /\ cmd = "load_config" /\ pc = "override"
    /\ config' = Overridden(config, argv.vault_path)
    /\ pc' = "validate"
    /\ UNCHANGED <<cmd, argv, fs, repo, changed_files, exit_code, current, calls, out,
                   uncaught>>

\* config.py:72-83
ValidateVault ==
    /\ cmd = "load_config" /\ pc = "validate"
    /\ LET v == CheckVault(fs, config)
       IN  /\ config' = IF config.vault_path = None THEN config
                        ELSE [config EXCEPT !.vault_path = Some(v.path)]
           /\ LoadConfigEnds(v.kind, v.msg, v.path)
    /\ UNCHANGED <<cmd, argv, fs, repo, changed_files, exit_code, current, out>>

----
\* find_vault_root  (utils.py:32-57)

\* the name looked for: load_config passes VAULT_NAME (config.py:68)
vault_name == IF cmd = "find_vault_root" THEN argv.vault_name ELSE VAULT_NAME

\* utils.py:44,52  while current != current.parent: the walk stops at the root
WalkDoneNever(p) == FALSE

WalkDone(p) == p = parent(p)

\* return v: to load_config, which assigns it (config.py:68), or to the caller
FindReturn(v) ==
    /\ calls' = Append(calls, CallV("find_vault_root", "ok", v))
    /\ IF cmd = "find_vault_root"
       THEN /\ pc' = "done"
            /\ UNCHANGED config
       ELSE /\ pc' = "override"
            /\ config' = [config EXCEPT !.vault_path = v]

\* utils.py:41  current = Path.cwd()
FindStart ==
    /\ pc = "find"
    /\ current' = fs.cwd
    /\ pc' = "child walk"
    /\ UNCHANGED <<cmd, argv, fs, repo, changed_files, exit_code, calls, out, uncaught,
                   config>>

\* utils.py:44-51  one turn of the first loop: a directory named vault_name
\* inside current; after the loop, current = Path.cwd() again
FindChild ==
    /\ pc = "child walk"
    /\ IF WalkDone(current)
       THEN /\ current' = fs.cwd
            /\ pc' = "name walk"
            /\ UNCHANGED <<calls, config>>
       ELSE LET potential_vault == Append(current, vault_name)
            IN  IF exists(fs, potential_vault) /\ is_dir(fs, potential_vault)
                THEN /\ FindReturn(Some(potential_vault))
                     /\ UNCHANGED current
                ELSE /\ current' = parent(current)
                     /\ UNCHANGED <<pc, calls, config>>
    /\ UNCHANGED <<cmd, argv, fs, repo, changed_files, exit_code, out, uncaught>>

\* utils.py:52-57  one turn of the second loop: current itself named
\* vault_name; after the loop, return None
FindByName ==
    /\ pc = "name walk"
    /\ IF WalkDone(current)
       THEN /\ FindReturn(None)
            /\ UNCHANGED current
       ELSE IF name(current) = vault_name
            THEN /\ FindReturn(Some(current))
                 /\ UNCHANGED current
            ELSE /\ current' = parent(current)
                 /\ UNCHANGED <<pc, calls, config>>
    /\ UNCHANGED <<cmd, argv, fs, repo, changed_files, exit_code, out, uncaught>>

----
\* The inputs of load_config and find_vault_root

\* deepest working directory, in components below the root
MaxDepth == 2

\* the other directory name of the model
OtherName == "notes"

DirNames == {VAULT_NAME, OtherName}

\* what a path can be
EntryKinds == {"absent", "file", "dir"}

\* the working directories
Cwds == UNION {[1..d -> DirNames] : d \in 0..MaxDepth}

\* config.py:37-50  no config file
MissingFile == [state |-> "missing", vault_path |-> None]

\* The file system around the working directory cwd, as far as a search for
\* n from cwd can see it: child[k] says what <k-th ancestor>/n is, and every
\* directory named n holds a Marker entry of kind marker.
Tree(n, cwd, child, marker) ==
    LET at(kind) == {Append(SubSeq(cwd, 1, k), n) :
                        k \in {j \in 0..Len(cwd) : child[j] = kind}}
        vaults == at("dir") \cup {a \in Ancestors(cwd) : name(a) = n}
        marks == {Append(v, Marker) : v \in vaults}
    IN  [cwd |-> cwd,
         dirs |-> Ancestors(cwd) \cup vaults \cup (IF marker = "dir" THEN marks ELSE {}),
         files |-> at("file") \cup (IF marker = "file" THEN marks ELSE {}),
         config_file |-> MissingFile]

\* no path is a directory and a file at once
Trees(n, markers) ==
    {t \in UNION {{Tree(n, cwd, child, m) :
                      child \in [0..Len(cwd) -> EntryKinds], m \in markers} :
                  cwd \in Cwds} :
        t.dirs \cap t.files = {}}

\* the file system seen from the root with nothing named VAULT_NAME in it
BareTree == Tree(VAULT_NAME, <<>>, [k \in {0} |-> "absent"], "absent")

\* a path given in the config file or on the command line: under "~" or absolute
GivenPaths(n) == {<<"~", n>>, <<"mnt", n>>}

\* what a given path can be: a directory holds a Marker entry or not
PathKinds == {"absent", "file", "dir", "dir with marker file", "dir with marker dir"}

\* the file system f with the path p of kind k in it
WithPath(f, p, k) ==
    IF k = "absent" THEN f
    ELSE IF k = "file"
    THEN [f EXCEPT !.dirs = @ \cup Ancestors(parent(p)), !.files = @ \cup {p}]
    ELSE [f EXCEPT !.dirs = @ \cup Ancestors(p)
                              \cup (IF k = "dir with marker dir"
                                    THEN {Append(p, Marker)} ELSE {}),
                   !.files = @ \cup (IF k = "dir with marker file"
                                     THEN {Append(p, Marker)} ELSE {})]

\* config.py:28-50  what the config file can be
ConfigFiles ==
    {MissingFile,
     [state |-> "invalid", vault_path |-> None],
     [state |-> "parsed", vault_path |-> None]}
    \cup {[state |-> "parsed", vault_path |-> Some(p)] : p \in GivenPaths("kb")}

\* config.py:53  the vault_path argument: None or the --path option
Overrides == {None} \cup {Some(p) : p \in GivenPaths("vault")}

----
\* Chapter links  (bible.py:105-291)

\* The names of the model that hold a space, each with its
\* str.replace(" ", "_") and the str.lower() of that.
Spaced == <<
    <<"1 Samuel", "1_Samuel", "1_samuel">>,
    <<"2 Samuel", "2_Samuel", "2_samuel">>,
    <<"1 Kings", "1_Kings", "1_kings">>,
    <<"2 Kings", "2_Kings", "2_kings">>,
    <<"1 Chronicles", "1_Chronicles", "1_chronicles">>,
    <<"2 Chronicles", "2_Chronicles", "2_chronicles">>,
    <<"Song of Solomon", "Song_of_Solomon", "song_of_solomon">>,
    <<"1 Corinthians", "1_Corinthians", "1_corinthians">>,
    <<"2 Corinthians", "2_Corinthians", "2_corinthians">>,
    <<"1 Thessalonians", "1_Thessalonians", "1_thessalonians">>,
    <<"2 Thessalonians", "2_Thessalonians", "2_thessalonians">>,
    <<"1 Timothy", "1_Timothy", "1_timothy">>,
    <<"2 Timothy", "2_Timothy", "2_timothy">>,
    <<"1 Peter", "1_Peter", "1_peter">>,
    <<"2 Peter", "2_Peter", "2_peter">>,
    <<"1 John", "1_John", "1_john">>,
    <<"2 John", "2_John", "2_john">>,
    <<"3 John", "3_John", "3_john">>,
    <<"1 john", "1_john", "1_john">>
>>

\* bible.py:250  book.replace(" ", "_").lower()
_format_book_name(book) ==
    IF \E i \in DOMAIN Spaced : Spaced[i][1] = book
    THEN Spaced[CHOOSE i \in DOMAIN Spaced : Spaced[i][1] = book][3]
    ELSE lower(book)

\* f"{name}_{n}": the name of a chapter note
ChapterNote(nm, n) == <<nm, n>>

\* bible.py:253-291.  The pair (previous_chapter, next_chapter), each None or
\* the name of a chapter note.
_get_adjacent_chapters_WithinBook(book, chapter) ==
    LET hits == {i \in DOMAIN KJV_BIBLE_BOOKS : lower(KJV_BIBLE_BOOKS[i][1]) = lower(book)}
    IN  IF hits = {} THEN <<None, None>>
        ELSE LET book_index == CHOOSE i \in hits : \A j \in hits : i <= j
                 current_book_chapters == KJV_BIBLE_BOOKS[book_index][2]
             IN  IF chapter < 1 \/ chapter > current_book_chapters THEN <<None, None>>
                 ELSE <<IF chapter > 1
                        THEN Some(ChapterNote(_format_book_name(book), chapter - 1))
                        ELSE None,
                        IF chapter < current_book_chapters
                        THEN Some(ChapterNote(_format_book_name(book), chapter + 1))
                        ELSE None>>

_get_adjacent_chapters(book, chapter) ==
    LET hits == {i \in DOMAIN KJV_BIBLE_BOOKS : lower(KJV_BIBLE_BOOKS[i][1]) = lower(book)}
    IN  IF hits = {} THEN <<None, None>>
        ELSE LET book_index == CHOOSE i \in hits : \A j \in hits : i <= j
                 current_book_chapters == KJV_BIBLE_BOOKS[book_index][2]
             IN  IF chapter < 1 \/ chapter > current_book_chapters THEN <<None, None>>
                 ELSE <<IF chapter > 1
                        THEN Some(ChapterNote(_format_book_name(book), chapter - 1))
                        ELSE IF book_index > 1
                        THEN Some(ChapterNote(
                                _format_book_name(KJV_BIBLE_BOOKS[book_index - 1][1]),
                                KJV_BIBLE_BOOKS[book_index - 1][2]))
                        ELSE None,
                        IF chapter < current_book_chapters
                        THEN Some(ChapterNote(_format_book_name(book), chapter + 1))
                        ELSE IF book_index < Len(KJV_BIBLE_BOOKS)
                        THEN Some(ChapterNote(
                                _format_book_name(KJV_BIBLE_BOOKS[book_index + 1][1]), 1))
                        ELSE None>>

\* bible.py:192-238  (prev_link, next_link, misc_links), with the tests of
\* bible.py:105-189 it calls as local definitions.
_get_links(book, chapter) ==
    LET \* {b.lower() for b, _ in KJV_BIBLE_BOOKS[a:b]}, a and b as in Python
        Slice(a, b) == {lower(KJV_BIBLE_BOOKS[i][1]) : i \in (a + 1)..b}
        \* bible.py:105-108
        _is_old_testament == lower(book) \in Slice(0, 39)
        \* bible.py:111-114
        _is_pentateuch == lower(book) \in Slice(0, 5)
        \* bible.py:152-155
        _is_synoptic_gospels == lower(book) \in Slice(39, 42)
        \* bible.py:158-160
        _is_gospel == _is_synoptic_gospels \/ lower(book) = "john"
        \* bible.py:117-120
        _is_history == lower(book) \in Slice(5, 17) \/ _is_gospel \/ lower(book) = "acts"
        \* bible.py:123-126
        _is_poetry == lower(book) \in Slice(17, 22)
        \* bible.py:129-132
        _is_major_prophets == lower(book) \in Slice(22, 27)
        \* bible.py:135-138
        _is_minor_prophets == lower(book) \in Slice(27, 39)
        \* bible.py:141-143
        _is_prophetic ==
            _is_major_prophets \/ _is_minor_prophets \/ lower(book) = "revelation"
        \* bible.py:146-149
        _is_new_testament == lower(book) \in Slice(39, Len(KJV_BIBLE_BOOKS))
        \* bible.py:163-166
        _is_pauline_letters == lower(book) \in Slice(44, 57)
        \* bible.py:169-172
        _is_prison_letters == lower(book) \in Slice(48, 51) \/ lower(book) = "philemon"
        \* bible.py:175-178
        _is_pastoral_letters == lower(book) \in Slice(53, 56)
        \* bible.py:181-184
        _is_general_letters == lower(book) \in Slice(58, 65)
        \* bible.py:187-189
        _is_letters ==
            _is_pauline_letters \/ _is_general_letters \/ lower(book) = "hebrews"
        \* f"[[{c}]]" if c else "N/A"
        Link(c) == IF c = None THEN <<"N/A">> ELSE <<"[[", c[1], "]]">>
        \* misc_links.append(tag) if the test holds
        AppendIf(links, test, tag) == IF test THEN Append(links, tag) ELSE links
        adjacent == _get_adjacent_chapters(book, chapter)
        l0 == <<"the_bible">>
        l1 == AppendIf(l0, _is_old_testament, "old_testament")
        l2 == AppendIf(l1, _is_pentateuch, "pentateuch")
        l3 == AppendIf(l2, _is_history, "historical_books")
        l4 == AppendIf(l3, _is_poetry, "poetic_books")
        l5 == AppendIf(l4, _is_major_prophets, "major_prophets")
        l6 == AppendIf(l5, _is_minor_prophets, "minor_prophets")
        l7 == AppendIf(l6, _is_prophetic, "prophetic_books")
        l8 == AppendIf(l7, _is_new_testament, "new_testament")
        l9 == AppendIf(l8, _is_synoptic_gospels, "synoptic_gospels")
        l10 == AppendIf(l9, _is_gospel, "gospels")
        l11 == AppendIf(l10, _is_pauline_letters, "pauline_letters")
        l12 == AppendIf(l11, _is_prison_letters, "prison_letters")
        l13 == AppendIf(l12, _is_pastoral_letters, "pastoral_letters")
        l14 == AppendIf(l13, _is_general_letters, "general_letters")
        l15 == AppendIf(l14, _is_letters, "letters")
    IN  <<Link(adjacent[1]), Link(adjacent[2]), l15>>

----
\* Strings, as sequences of characters  (utils.py:60-96)

\* the characters of the model, by class
LowerCase == {"a", "b", "d", "e", "i", "l", "n", "t", "u"}

UpperCase == {"B"}

Digits == {"7"}

Whitespace == {" ", "\t"}

\* str.lower()
str_lower(s) ==
    LET LowerChar(c) == IF c = "B" THEN "b" ELSE c
    IN  [i \in DOMAIN s |-> LowerChar(s[i])]

RECURSIVE lstrip(_, _)
\* str.lstrip(chars)
lstrip(s, chars) == IF s # <<>> /\ s[1] \in chars THEN lstrip(Tail(s), chars) ELSE s

RECURSIVE rstrip(_, _)
\* str.rstrip(chars)
rstrip(s, chars) ==
    IF s # <<>> /\ s[Len(s)] \in chars THEN rstrip(SubSeq(s, 1, Len(s) - 1), chars) ELSE s

\* str.strip(chars); str.strip() is strip(s, Whitespace)
strip(s, chars) == rstrip(lstrip(s, chars), chars)

\* str.replace(a, b) for single characters
replace(s, a, b) == [i \in DOMAIN s |-> IF s[i] = a THEN b ELSE s[i]]

\* re.sub(r"[^a-zA-Z0-9\-_]", "", s)
RemoveSymbols(s) ==
    SelectSeq(s, LAMBDA c : c \in LowerCase \cup UpperCase \cup Digits \cup {"-", "_"})

RECURSIVE Collapse(_, _)
\* re.sub(r"c+", "c", s): every run of c becomes one c
Collapse(s, c) ==
    IF Len(s) < 2 THEN s
    ELSE IF s[1] = c /\ s[2] = c THEN Collapse(Tail(s), c)
    ELSE <<s[1]>> \o Collapse(Tail(s), c)

untitled == <<"u", "n", "t", "i", "t", "l", "e", "d">>

\* utils.py:60-80
sanitize_filename_StripsFirst(title) ==
    LET f1 == strip(replace(strip(title, Whitespace), " ", "_"), {"-", "_"})
        f2 == RemoveSymbols(f1)
        f3 == Collapse(f2, "-")
        f4 == Collapse(f3, "_")
    IN  str_lower(IF f4 = <<>> THEN untitled ELSE f4)

sanitize_filename(title) ==
    LET f1 == replace(strip(title, Whitespace), " ", "_")
        f2 == RemoveSymbols(f1)
        f3 == Collapse(f2, "-")
        f4 == Collapse(f3, "_")
        f5 == strip(f4, {"-", "_"})
    IN  str_lower(IF f5 = <<>> THEN untitled ELSE f5)

RECURSIVE split(_, _)
\* str.split(sep): the pieces between the separators, empty ones included
split(s, sep) ==
    IF \A i \in DOMAIN s : s[i] # sep THEN <<s>>
    ELSE LET k == CHOOSE i \in DOMAIN s : s[i] = sep /\ \A j \in 1..(i - 1) : s[j] # sep
         IN  <<SubSeq(s, 1, k - 1)>> \o split(SubSeq(s, k + 1, Len(s)), sep)

RECURSIVE join(_, _)
\* sep.join(pieces)
join(sep, pieces) ==
    IF pieces = <<>> THEN <<>>
    ELSE IF Len(pieces) = 1 THEN pieces[1]
    ELSE pieces[1] \o sep \o join(sep, Tail(pieces))

\* utils.py:83-96.  hashtags is None or Some(string); "" is false like None.
format_hashtags_KeepsEmpty(hashtags) ==
    IF hashtags = None \/ hashtags = Some(<<>>) THEN <<>>
    ELSE LET pieces == split(hashtags[1], ",")
             tags == [i \in DOMAIN pieces |-> strip(pieces[i], Whitespace)]
         IN  join(<<" ">>, [i \in DOMAIN tags |-> <<"#">> \o tags[i]])

format_hashtags(hashtags) ==
    IF hashtags = None \/ hashtags = Some(<<>>) THEN <<>>
    ELSE LET pieces == split(hashtags[1], ",")
             kept == SelectSeq(pieces, LAMBDA t : strip(t, Whitespace) # <<>>)
             tags == [i \in DOMAIN kept |-> strip(kept[i], Whitespace)]
         IN  join(<<" ">>, [i \in DOMAIN tags |-> <<"#">> \o tags[i]])

----
\* Dates  (datetime, as journal.py uses it)

\* A date is [y, m, d].
IsLeap(y) == y % 4 = 0 /\ (y % 100 # 0 \/ y % 400 = 0)

DaysInMonth(y, m) ==
    IF m = 2 THEN (IF IsLeap(y) THEN 28 + 1 ELSE 28)
    ELSE IF m \in {4, 6, 9, 11} THEN 30 ELSE 31

RECURSIVE AddDays(_, _)
\* t + timedelta(days=n)
AddDays(t, n) ==
    LET NextDay ==
            IF t.d < DaysInMonth(t.y, t.m) THEN [t EXCEPT !.d = t.d + 1]
            ELSE IF t.m < 12 THEN [y |-> t.y, m |-> t.m + 1, d |-> 1]
            ELSE [y |-> t.y + 1, m |-> 1, d |-> 1]
        PrevDay ==
            IF t.d > 1 THEN [t EXCEPT !.d = t.d - 1]
            ELSE IF t.m > 1
            THEN [y |-> t.y, m |-> t.m - 1, d |-> DaysInMonth(t.y, t.m - 1)]
            ELSE [y |-> t.y - 1, m |-> 12, d |-> 31]
    IN  IF n = 0 THEN t
        ELSE IF n > 0 THEN AddDays(NextDay, n - 1)
        ELSE AddDays(PrevDay, n + 1)

RECURSIVE DaysBefore(_, _)
\* the days of year y before month m
DaysBefore(y, m) == IF m = 1 THEN 0 ELSE DaysBefore(y, m - 1) + DaysInMonth(y, m - 1)

RECURSIVE Jan1Weekday(_)
\* tm_wday (Monday = 0) of 1 January; 1 January 2024 was a Monday
Jan1Weekday(y) ==
    IF y = 2024 THEN 0
    ELSE IF y > 2024 THEN (Jan1Weekday(y - 1) + DaysBefore(y - 1, 12) + 31) % 7
    ELSE (Jan1Weekday(y + 1) + 53 * 7 - (DaysBefore(y, 12) + 31)) % 7

\* the number strftime("%W") writes: weeks start on Monday, the days before
\* the year's first Monday are in week 0
WeekNumber(t) ==
    LET \* tm_yday - 1: the days of the year before t
        YearDay == DaysBefore(t.y, t.m) + t.d - 1
        \* tm_wday, Monday = 0
        Weekday == (Jan1Weekday(t.y) + YearDay) % 7
    IN  (YearDay + 7 - Weekday) \div 7

\* a number below 100 as strftime writes it: two digits
TwoDigits(n) == <<n \div 10, n % 10>>

\* int(s) of a string of two digits
int(s) == 10 * s[1] + s[2]

\* str(n), as an f-string writes a number below 100: no padding
str(n) == IF n < 10 THEN <<n>> ELSE <<n \div 10, n % 10>>

\* f"{week}-{year}", strftime("%W-%Y"): the week as the string of its digits
WeekKey(week, y) == [week |-> week, year |-> y]

\* strftime("%b-%Y")
MonthKey(t) ==
    LET \* strftime("%b")
        MonthAbbr == <<"Jan", "Feb", "Mar", "Apr", "May", "Jun",
                       "Jul", "Aug", "Sep", "Oct", "Nov", "Dec">>
    IN  [month |-> MonthAbbr[t.m], year |-> t.y]

\* journal.py:260
this_week_Unadjusted(now) == WeekKey(str(int(TwoDigits(WeekNumber(now)))), now.y)

this_week(now) == WeekKey(str(int(TwoDigits(WeekNumber(now))) + 1), now.y)

\* journal.py:353  (datetime.now() - timedelta(weeks=1)).strftime("%W-%Y")
PreviousWeekLink(now) ==
    LET t == AddDays(now, -7) IN WeekKey(TwoDigits(WeekNumber(t)), t.y)

\* journal.py:354  (datetime.now() + timedelta(weeks=1)).strftime("%W-%Y")
NextWeekLink(now) ==
    LET t == AddDays(now, 7) IN WeekKey(TwoDigits(WeekNumber(t)), t.y)

\* journal.py:45
this_month(now) == MonthKey(now)

\* journal.py:226  (datetime.now() - timedelta(days=31)).strftime("%b-%Y")
PreviousMonthLink(now) == MonthKey(AddDays(now, -31))

\* journal.py:227  (datetime.now() + timedelta(days=28)).strftime("%b-%Y")
NextMonthLink(now) == MonthKey(AddDays(now, 28))

----
\* The tool

\* largest chapter number given on the command line
MaxChapterArg == 51
\* largest number of inbox notes already named like the new note
MaxTaken == 2

Commands == {"sync", "info", "empty", "daily", "weekly", "monthly", "chapter"}

NoArgs == [book |-> "", chapter |-> 0]

BookArgs == BookNames \cup {OtherSpellings[i][1] : i \in DOMAIN OtherSpellings}

\* the arguments the command line can give the command
Args(c) ==
    IF c = "chapter"
    THEN {[book |-> b, chapter |-> n] : b \in BookArgs, n \in 0..MaxChapterArg}
    ELSE {NoArgs}

CleanRepo ==
    [staged |-> 0, diff |-> <<>>, untracked |-> <<>>,
     commits |-> 0, committed |-> 0, rebasing |-> FALSE]

\* the part of the vault the command looks at
FileSystems(c) ==
    { [inbox |-> i, note |-> n, daily |-> d, taken |-> t] :
        i \in (IF c \in {"weekly", "empty", "info"} THEN BOOLEAN ELSE {TRUE}),
        n \in (IF c \in {"daily", "weekly", "monthly", "chapter"} THEN {"absent", "old"} ELSE {"absent"}),
        d \in (IF c = "empty" THEN BOOLEAN ELSE {FALSE}),
        t \in (IF c = "empty" THEN 0..MaxTaken ELSE {0}) }

Init ==
    /\ cmd \in Commands
    /\ argv \in Args(cmd)
    /\ pc = "start"
    /\ repo \in (IF cmd = "sync" THEN Repos ELSE {CleanRepo})
    /\ fs \in FileSystems(cmd)
    /\ calls = <<>>
    /\ out = <<>>
    /\ changed_files = <<>>
    /\ exit_code = Running
    /\ uncaught = ""
    /\ config = DefaultConfig
    /\ current = <<>>

Next ==
    \/ SyncLoadConfig \/ SyncAnnounce \/ SyncOpenRepo \/ SyncActiveBranch
    \/ SyncIsDirty \/ SyncCollect \/ SyncStage \/ SyncCommit
    \/ SyncFetch \/ SyncRebase \/ SyncRebaseAbort \/ SyncPush \/ SyncSucceed
    \/ DailyLoadConfig \/ DailyMkdir \/ DailyCheckExists \/ DailyWrite
    \/ MonthlyLoadConfig \/ MonthlyMkdir \/ MonthlyCheckExists \/ MonthlyWrite
    \/ WeeklyLoadConfig \/ WeeklyMkdir \/ WeeklyCheckExists \/ WeeklyInbox \/ WeeklyWrite
    \/ ChapterLoadConfig \/ ChapterValidate \/ ChapterMkdir \/ ChapterCheckExists
    \/ ChapterWrite
    \/ EmptyLoadConfig \/ EmptyMkdir \/ EmptyPickPath \/ EmptyDailyExists
    \/ InfoLoadConfig \/ InfoReport

Spec == Init /\ [][Next]_vars

----
\* Calls of load_config and of find_vault_root on their own

\* the location a given path names, the root when none is given
Location(given) == IF given = None THEN <<>> ELSE expanduser(given[1])

\* One call of load_config(config_file, vault_path).  The parts of the file
\* system the call does not look at are left bare.
InitConfig ==
    /\ cmd = "load_config"
    /\ pc = "start"
    /\ \E file \in ConfigFiles, vault_path \in Overrides :
        \E tree \in (IF file.state # "invalid" /\ file.vault_path = None
                     THEN Trees(VAULT_NAME, EntryKinds) ELSE {BareTree}),
           kf \in (IF file.vault_path # None THEN PathKinds ELSE {"absent"}),
           ko \in (IF vault_path # None THEN PathKinds ELSE {"absent"}) :
            /\ argv = [config_file |-> <<"~", ".sb_config.yml">>, vault_path |-> vault_path]
            /\ fs = [WithPath(WithPath(tree, Location(file.vault_path), kf),
                              Location(vault_path), ko)
                     EXCEPT !.config_file = file]
    /\ repo = CleanRepo
    /\ calls = <<>>
    /\ out = <<>>
    /\ changed_files = <<>>
    /\ exit_code = Running
    /\ uncaught = ""
    /\ config = DefaultConfig
    /\ current = <<>>

NextConfig ==
    \/ LoadFile \/ FindStart \/ FindChild \/ FindByName \/ Override \/ ValidateVault

SpecConfig == InitConfig /\ [][NextConfig]_vars

\* One call of find_vault_root(vault_name) from some working directory.
InitFind ==
    /\ cmd = "find_vault_root"
    /\ pc = "find"
    /\ \E n \in DirNames :
        /\ argv = [vault_name |-> n]
        /\ fs \in Trees(n, {"absent"})
    /\ repo = CleanRepo
    /\ calls = <<>>
    /\ out = <<>>
    /\ changed_files = <<>>
    /\ exit_code = Running
    /\ uncaught = ""
    /\ config = DefaultConfig
    /\ current = <<>>

NextFind == FindStart \/ FindChild \/ FindByName

SpecFind == InitFind /\ [][NextFind]_vars

\* Once called, find_vault_root keeps running.
FairSpecFind == SpecFind /\ WF_vars(NextFind)

----
\* Calls of the chapter functions on their own

\* largest chapter number passed to the chapter functions
MaxLinkChapter == 151

\* One call of _is_valid_chapter(book, chapter) or _get_links(book, chapter).
InitBible ==
    /\ cmd \in {"_is_valid_chapter", "_get_links"}
    /\ pc = "start"
    /\ argv \in {[book |-> b, chapter |-> n] : b \in BookArgs, n \in 0..MaxLinkChapter}
    /\ repo = CleanRepo
    /\ fs = [inbox |-> TRUE, note |-> "absent", daily |-> FALSE, taken |-> 0]
    /\ calls = <<>>
    /\ out = <<>>
    /\ changed_files = <<>>
    /\ exit_code = Running
    /\ uncaught = ""
    /\ config = DefaultConfig
    /\ current = <<>>

\* bible.py:99-102
IsValidChapter ==
    /\ cmd = "_is_valid_chapter" /\ pc = "start"
    /\ LET v == _is_valid_chapter(argv.book, argv.chapter)
       IN  /\ calls' = Append(calls, Call("_is_valid_chapter", v))
           /\ uncaught' = IF v = "KeyError" THEN v ELSE ""
    /\ pc' = "done"
    /\ UNCHANGED <<cmd, argv, config, current, repo, fs, out, changed_files, exit_code>>

\* bible.py:192-238
GetLinks ==
    /\ cmd = "_get_links" /\ pc = "start"
    /\ calls' = Append(calls, CallV("_get_links", "ok", _get_links(argv.book, argv.chapter)))
    /\ pc' = "done"
    /\ UNCHANGED <<cmd, argv, config, current, repo, fs, out, changed_files, exit_code,
                   uncaught>>

NextBible == IsValidChapter \/ GetLinks

SpecBible == InitBible /\ [][NextBible]_vars

----
\* Calls of sanitize_filename and format_hashtags on their own

\* longest title passed to sanitize_filename
MaxTitle == 4

\* longest tag list passed to format_hashtags
MaxTags == 5

\* One call of sanitize_filename(title), followed by a call on its result, or
\* one call of format_hashtags(hashtags).
InitUtils ==
    /\ LET \* the characters titles are made of
           TitleChars == {"a", "B", "7", " ", "\t", "-", "_", "@"}
           \* the characters tag lists are made of
           TagChars == {"a", "b", ",", " "}
           \* the strings of at most n characters of cs
           Strings(cs, n) == UNION {[1..k -> cs] : k \in 0..n}
       IN  \/ /\ cmd = "sanitize_filename"
              /\ argv \in {[title |-> t] : t \in Strings(TitleChars, MaxTitle)}
           \/ /\ cmd = "format_hashtags"
              /\ argv \in {[hashtags |-> h] :
                            h \in {None} \cup {Some(t) : t \in Strings(TagChars, MaxTags)}}
    /\ pc = "start"
    /\ repo = CleanRepo
    /\ fs = [inbox |-> TRUE, note |-> "absent", daily |-> FALSE, taken |-> 0]
    /\ calls = <<>>
    /\ out = <<>>
    /\ changed_files = <<>>
    /\ exit_code = Running
    /\ uncaught = ""
    /\ config = DefaultConfig
    /\ current = <<>>

\* sanitize_filename(title)
Sanitize ==
    /\ cmd = "sanitize_filename" /\ pc = "start"
    /\ calls' = Append(calls, CallV("sanitize_filename", "ok", sanitize_filename(argv.title)))
    /\ pc' = "again"
    /\ UNCHANGED <<cmd, argv, config, current, repo, fs, out, changed_files, exit_code,
                   uncaught>>

\* sanitize_filename(<the result of the first call>)
SanitizeAgain ==
    /\ cmd = "sanitize_filename" /\ pc = "again"
    /\ calls' = Append(calls, CallV("sanitize_filename", "ok",
                                    sanitize_filename(calls[Len(calls)].val)))
    /\ pc' = "done"
    /\ UNCHANGED <<cmd, argv, config, current, repo, fs, out, changed_files, exit_code,
                   uncaught>>

\* format_hashtags(hashtags)
FormatHashtags ==
    /\ cmd = "format_hashtags" /\ pc = "start"
    /\ calls' = Append(calls, CallV("format_hashtags", "ok", format_hashtags(argv.hashtags)))
    /\ pc' = "done"
    /\ UNCHANGED <<cmd, argv, config, current, repo, fs, out, changed_files, exit_code,
                   uncaught>>

NextUtils == Sanitize \/ SanitizeAgain \/ FormatHashtags

SpecUtils == InitUtils /\ [][NextUtils]_vars

----
\* The file key and the links weekly and monthly compute, on their own

\* last year in which the commands run
MaxYear == 2025

\* One run of weekly or monthly on the day datetime.now() gives.
InitJournal ==
    /\ cmd \in {"weekly", "monthly"}
    /\ LET \* the days on which the commands run
           Days == {[y |-> y, m |-> m, d |-> d] :
                      y \in 2024..MaxYear, m \in 1..12, d \in 1..31}
           Today == {t \in Days : t.d <= DaysInMonth(t.y, t.m)}
       IN  argv \in {[now |-> t] : t \in Today}
    /\ pc = "key"
    /\ repo = CleanRepo
    /\ fs = [inbox |-> TRUE, note |-> "absent", daily |-> FALSE, taken |-> 0]
    /\ calls = <<>>
    /\ out = <<>>
    /\ changed_files = <<>>
    /\ exit_code = Running
    /\ uncaught = ""
    /\ config = DefaultConfig
    /\ current = <<>>

JournalStep(c, at, op, v, next) ==
    /\ cmd = c /\ pc = at
    /\ calls' = Append(calls, CallV(op, "ok", v))
    /\ pc' = next
    /\ UNCHANGED <<cmd, argv, config, current, repo, fs, out, changed_files, exit_code,
                   uncaught>>

\* journal.py:260-261
WeeklyKey == JournalStep("weekly", "key", "this_week", this_week(argv.now), "links")

\* journal.py:353-354
WeeklyLinks ==
    JournalStep("weekly", "links", "links",
                <<PreviousWeekLink(argv.now), NextWeekLink(argv.now)>>, "done")

\* journal.py:45-46
MonthlyKey == JournalStep("monthly", "key", "this_month", this_month(argv.now), "links")

\* journal.py:226-227
MonthlyLinks ==
    JournalStep("monthly", "links", "links",
                <<PreviousMonthLink(argv.now), NextMonthLink(argv.now)>>, "done")

NextJournal == WeeklyKey \/ WeeklyLinks \/ MonthlyKey \/ MonthlyLinks

SpecJournal == InitJournal /\ [][NextJournal]_vars

----
\* Reading the logs

\* the outcomes of the calls of operation o made so far
Results(o) == {calls[i].res : i \in {j \in DOMAIN calls : calls[j].op = o}}

Has(o) == Results(o) # {}

Ok(o) == Results(o) = {"ok"}

Failed(o) == Results(o) \cap RepoExc # {}

Count(o) == Cardinality({j \in DOMAIN calls : calls[j].op = o})

Printed(m) == \E i \in DOMAIN out : out[i].msg = m

\* the lines of one kind, in the order printed
Lines(m) == SelectSeq(out, LAMBDA l : l.msg = m)

IsPrefix(s, t) == Len(s) <= Len(t) /\ s = SubSeq(t, 1, Len(s))

SyncDone == cmd = "sync" /\ pc = "done"

----
\* Properties of sync

\* C1: if fetching from origin fails (obtaining the remote included), neither
\* rebase nor push is invoked in that run and the command exits with code 1.
C1_FetchFailureStopsSync ==
    (cmd = "sync" /\ (Failed("remote") \/ Failed("fetch")))
        => /\ ~Has("rebase") /\ ~Has("rebase --abort") /\ ~Has("push")
           /\ pc = "done" /\ exit_code = 1 /\ uncaught = ""

C1_Witness ==
    SyncDone /\ Failed("fetch") /\ Ok("commit") /\ Printed("Failed to fetch from remote")

C3_NoPushAfterRebaseFailure ==
    (cmd = "sync" /\ Failed("rebase")) => ~Has("push")

C3_Witness ==
    SyncDone /\ Failed("rebase") /\ Ok("rebase --abort") /\ ~Has("push")

\* the version-control operations of the claimed sequence
VcOps == {"Repo", "add", "commit", "fetch", "rebase", "rebase --abort", "push"}

VcCalls == SelectSeq(calls, LAMBDA c : c.op \in VcOps)

\* the operations of the fixed sequence invoked so far, in order
MainOps ==
    LET main == SelectSeq(VcCalls, LAMBDA c : c.op # "rebase --abort")
    IN  [i \in 1..Len(main) |-> main[i].op]

\* C4: the version-control operations invoked form a prefix of open, (stage-all,
\* commit, only when the tree is dirty), fetch, rebase, push; each is invoked
\* only after every earlier one succeeded; the only extra operation is one
\* rebase-abort right after a failed rebase.
C4_FixedSequence ==
    cmd = "sync" =>
        /\ IsPrefix(MainOps,
                    IF "True" \in Results("is_dirty")
                    THEN <<"Repo", "add", "commit", "fetch", "rebase", "push">>
                    ELSE <<"Repo", "fetch", "rebase", "push">>)
        /\ (Has("add") \/ Has("commit")) => Results("is_dirty") = {"True"}
        /\ \A i \in 1..Len(VcCalls) :
            /\ VcCalls[i].op = "rebase --abort" =>
                 /\ i = Len(VcCalls) /\ i > 1
                 /\ VcCalls[i-1].op = "rebase" /\ VcCalls[i-1].res # "ok"
            /\ (i < Len(VcCalls) /\ VcCalls[i+1].op # "rebase --abort") =>
                 VcCalls[i].res = "ok"
            /\ (i < Len(VcCalls) /\ VcCalls[i+1].op = "rebase --abort") =>
                 VcCalls[i].op = "rebase"

C4_Witness ==
    /\ SyncDone
    /\ [i \in 1..Len(VcCalls) |-> VcCalls[i].op]
         = <<"Repo", "add", "commit", "fetch", "rebase", "rebase --abort">>

AllSucceeded == Ok("Repo") /\ Ok("fetch") /\ Ok("rebase") /\ Ok("push")

\* C5: sync reports overall success, and ends without a failure exit code,
\* exactly when the repository was opened and fetch, rebase and push all
\* succeeded; when any of them fails the exit code is 1.
C5_SuccessIffAllSucceeded ==
    /\ cmd = "sync" /\ Printed("All operations completed successfully!") => AllSucceeded
    /\ SyncDone =>
        /\ Printed("All operations completed successfully!") <=> AllSucceeded
        /\ exit_code = 0 <=> AllSucceeded
        /\ (Failed("Repo") \/ Failed("remote") \/ Failed("fetch")
              \/ Failed("rebase") \/ Failed("push")) => exit_code = 1

C5_Witness ==
    SyncDone /\ Ok("Repo") /\ Ok("fetch") /\ Ok("rebase") /\ Failed("push") /\ exit_code = 1

\* C6: if the vault path is not a git repository, sync says so, exits with
\* code 1 and runs none of the later steps.
C6_InvalidRepositoryStops ==
    (cmd = "sync" /\ "InvalidGitRepositoryError" \in Results("Repo"))
        => /\ pc = "done" /\ exit_code = 1 /\ uncaught = ""
           /\ out[Len(out)].msg = "not a valid git repository"
           /\ calls[Len(calls)].op = "Repo"
           /\ \A o \in {"active_branch", "is_dirty", "index.diff", "untracked_files",
                        "add", "commit", "remote", "fetch", "rebase", "push"} : ~Has(o)

C6_Witness ==
    SyncDone /\ Results("Repo") = {"InvalidGitRepositoryError"}

\* C7: on a clean tree sync stages nothing and commits nothing, reports
\* "No changes to commit", and goes on to fetch, then rebase, then push.
C7_CleanTreeStillSyncs ==
    (cmd = "sync" /\ "False" \in Results("is_dirty"))
        => /\ ~Has("index.diff") /\ ~Has("add") /\ ~Has("commit")
           /\ ~Printed("Staging") /\ ~Printed("Committed")
           /\ Printed("No changes to commit.")
           /\ pc \in {"fetch", "rebase", "abort", "push", "succeed", "done"}
           /\ pc = "done" =>
                /\ Has("remote")
                /\ Ok("remote") => Has("fetch")
                /\ Ok("fetch") => Has("rebase")
                /\ Ok("rebase") => Has("push")

C7_Witness ==
    SyncDone /\ "False" \in Results("is_dirty") /\ Ok("push") /\ exit_code = 0

\* what index.diff(None) and untracked_files returned in this run
DiffEntries == IF Ok("index.diff") THEN calls[CHOOSE i \in DOMAIN calls : calls[i].op = "index.diff"].val ELSE <<>>

UntrackedFiles == IF Ok("untracked_files") THEN calls[CHOOSE i \in DOMAIN calls : calls[i].op = "untracked_files"].val ELSE <<>>

\* C8: the file count reported when staging and when committing is the number
\* of diff entries plus the number of untracked files, the same in both lines.
C8_ReportedCount ==
    cmd = "sync" =>
        \A i \in DOMAIN out :
            out[i].msg \in {"Staging", "Committed"} =>
                out[i].n = Len(DiffEntries) + Len(UntrackedFiles)

C8_Witness ==
    /\ SyncDone /\ Printed("Staging") /\ Printed("Committed")
    /\ Len(DiffEntries) = 2 /\ Len(UntrackedFiles) = 3
    /\ Lines("Committed")[1].n = 5

\* C9: after committing n changed files sync lists the first min(n, 10) changed
\* paths, diff entries first, then untracked files, in order, and prints an
\* "and N more" line exactly when n > 10, with N = n - 10.
C9_ListingOfChangedFiles ==
    (cmd = "sync" /\ Printed("Committed")) =>
        LET all == DiffEntries \o UntrackedFiles
            n == Len(all)
            listed == Lines("-")
        IN  /\ Len(listed) = Min(n, ShowLimit)
            /\ \A i \in 1..Len(listed) : listed[i].path = all[i]
            /\ Printed("... and more") <=> n > ShowLimit
            /\ Len(Lines("... and more")) <= 1
            /\ n > ShowLimit => Lines("... and more")[1].n = n - ShowLimit

C9_Witness ==
    /\ SyncDone /\ Printed("Committed")
    /\ Len(DiffEntries) = 8 /\ Len(UntrackedFiles) = 4
    /\ Len(Lines("-")) = 10 /\ Lines("... and more")[1].n = 2

----
\* Properties of every command

ErrorMessages ==
    {"InvalidVaultError", "not a valid git repository", "Git command failed",
     "Unexpected error", "Failed to fetch from remote", "Rebase failed", "Push failed",
     "Failed to create", "is not a valid chapter of the Bible"}

\* C10: every command ends with exit code 0, or with exit code 1 after an error
\* message; no exception leaves a command unhandled.
C10_NoUnhandledException ==
    pc = "done" =>
        /\ uncaught = ""
        /\ \/ exit_code = 0
           \/ exit_code = 1 /\ \E i \in DOMAIN out : out[i].msg \in ErrorMessages

----
\* Properties of load_config

LoadConfigDone == cmd = "load_config" /\ pc = "done"

\* load_config returned a configuration
Returned == LoadConfigDone /\ uncaught = ""

\* how the call of load_config ended: the last entry of the log
Outcome == calls[Len(calls)]

\* what find_vault_root returned, once it has
Found == calls[CHOOSE i \in DOMAIN calls : calls[i].op = "find_vault_root"].val

\* the location p is a directory that holds a marker entry of any kind
IsVault(p) == is_dir(fs, p) /\ exists(fs, Append(p, Marker))

\* C11: with a vault path given on the command line, the configuration
\* load_config returns has that path, home-expanded, as vault_path, whatever
\* the config file names and whatever discovery finds; and (the config file
\* being readable) whether load_config returns, and the path its error names,
\* depend on the given path alone.
C11_OverrideWins ==
    (LoadConfigDone /\ argv.vault_path # None) =>
        LET p == expanduser(argv.vault_path[1])
        IN  /\ Returned => config.vault_path = Some(p)
            /\ fs.config_file.state # "invalid" =>
                /\ Returned <=> IsVault(p)
                /\ ~Returned => uncaught = "InvalidVaultError" /\ Outcome.val[2] = p

C11_Witness ==
    /\ Returned
    /\ argv.vault_path = Some(<<"~", "vault">>)
    /\ config.vault_path = Some(<<"home", "u", "vault">>)
    /\ fs.config_file.vault_path = Some(<<"mnt", "kb">>)
    /\ IsVault(<<"mnt", "kb">>)

C13_ConfigFileThenDiscovery ==
    (LoadConfigDone /\ argv.vault_path = None /\ fs.config_file.state # "invalid") =>
        LET file == fs.config_file
        IN  IF file.vault_path # None
            THEN /\ ~Has("find_vault_root")
                 /\ Returned => config.vault_path = Some(expanduser(file.vault_path[1]))
                 /\ IsVault(expanduser(file.vault_path[1])) => Returned
            ELSE /\ Count("find_vault_root") = 1
                 /\ uncaught \in {"", "InvalidVaultError"}
                 /\ Returned => Found # None /\ config.vault_path = Found
                 /\ (Found # None /\ IsVault(Found[1])) => Returned

C13_Witness ==
    /\ Returned
    /\ argv.vault_path = None
    /\ fs.config_file.state = "missing"
    /\ Len(fs.cwd) = 2
    /\ config.vault_path = Some(<<VAULT_NAME>>)

\* C14: load_config raises nothing but InvalidVaultError, and its message is
\* that of the first cause that applies: no vault path, then a path that is
\* not an existing directory, then a directory without the marker.
C14_OnlyInvalidVaultError ==
    (LoadConfigDone /\ ~Returned) =>
        /\ uncaught = "InvalidVaultError"
        /\ Outcome.val[1] =
             IF config.vault_path = None THEN "No second-brain vault found."
             ELSE IF ~is_dir(fs, config.vault_path[1]) THEN "Invalid vault path:"
             ELSE "is not a valid Obsidian vault."

----
\* Properties of find_vault_root

FindDone == cmd = "find_vault_root" /\ pc = "done"

\* the directories from the working directory up to the root that are named
\* like the vault or hold a directory named like it
Hits ==
    {a \in Ancestors(fs.cwd) :
        name(a) = argv.vault_name \/ is_dir(fs, Append(a, argv.vault_name))}

\* C15: when some directory on the walk from the working directory to the
\* root, the root included, is named like the vault or holds a directory
\* named like it, find_vault_root returns the vault of the nearest such
\* directory.
C15_NearestMatchFound ==
    (FindDone /\ Hits # {}) =>
        LET a == CHOOSE x \in Hits : \A y \in Hits : Len(y) <= Len(x)
            v == Append(a, argv.vault_name)
        IN  Found \in (IF name(a) = argv.vault_name THEN {Some(a)} ELSE {})
                        \cup (IF is_dir(fs, v) THEN {Some(v)} ELSE {})

\* C16: when no directory on the walk is named like the vault or holds a
\* directory named like it, find_vault_root ends, returns None and raises
\* nothing; no step of it changes the file system.
C16_NoMatchReturnsNone ==
    /\ [](FindDone /\ Hits = {} => Found = None /\ uncaught = "")
    /\ (cmd = "find_vault_root" /\ Hits = {}) ~> FindDone
    /\ [][fs' = fs]_vars

C16_Witness ==
    /\ FindDone /\ Hits = {}
    /\ Len(fs.cwd) = 2
    /\ Found = None

----
\* Properties of the note commands

\* the probes of the note path made so far, in order
Probes == SelectSeq(calls, LAMBDA c : c.op = "exists")

\* C17: in daily, weekly, monthly and chapter, when a note exists at the
\* computed path the command reports "already exists", ends with exit code 0
\* and writes nothing: the note is the one that was there.
C17_ExistingNoteKept ==
    (cmd \in {"daily", "weekly", "monthly", "chapter"} /\ "True" \in Results("exists")) =>
        /\ pc = "done" /\ exit_code = 0 /\ uncaught = ""
        /\ Printed("already exists")
        /\ ~Has("write")
        /\ fs.note = "old"

C17_Witness ==
    /\ cmd = "chapter" /\ argv = [book |-> "Genesis", chapter |-> 50]
    /\ "True" \in Results("exists")
    /\ pc = "done" /\ exit_code = 0 /\ fs.note = "old"

\* C18 as stated: when a note exists at the path computed from the title,
\* empty reports "already exists" and ends without error, writing no file.
C18_EmptyRefusesExistingNote ==
    (cmd = "empty" /\ pc = "done" /\ "True" \in Results("exists")) =>
        /\ Printed("already exists")
        /\ exit_code = 0 /\ uncaught = ""
        /\ ~Has("write") /\ fs.note = "absent"

\* C18: empty does not refuse when a note exists at the path computed from
\* the title: it never reports "already exists"; it probes <name>.md,
\* <name>_1.md, <name>_2.md, ... in this order and takes the first that does
\* not exist as the note's path, so that no existing note is written to.
C18_EmptyPicksFreeName ==
    (cmd = "empty" /\ Has("exists")) =>
        /\ ~Printed("already exists")
        /\ Len(Probes) = fs.taken + 1
        /\ \A i \in DOMAIN Probes :
            /\ Probes[i].val = <<i - 1>>
            /\ Probes[i].res = "False" <=> i = Len(Probes)

C18_Witness ==
    /\ cmd = "empty" /\ pc = "done"
    /\ fs.taken = 2
    /\ Len(Probes) = 3 /\ Probes[3] = CallV("exists", "False", <<2>>)

\* C19: in a valid vault, empty creates the note in the inbox, reports its
\* path and ends with exit code 0, whether or not today's daily note exists.
C19_EmptyCreatesNote ==
    (cmd = "empty" /\ pc = "done" /\ Ok("load_config") /\ Ok("mkdir")) =>
        /\ exit_code = 0 /\ uncaught = ""
        /\ fs.note = "new"
        /\ Printed("created")

\* C20: chapter accepts its (book, chapter) exactly when the book is one of
\* the 66 books of the canon and 1 <= chapter <= the book's chapter count; a
\* pair it does not accept gives the error message and exit code 1, and no
\* note file is created.
C20_AcceptsExactlyTheCanon ==
    (cmd = "chapter" /\ pc = "done" /\ Ok("load_config")) =>
        LET canon == /\ argv.book \in BookNames
                     /\ 1 <= argv.chapter
                     /\ argv.chapter <= ChaptersOf(argv.book)
            accepted == "True" \in Results("_is_valid_chapter")
        IN  /\ accepted <=> canon
            /\ ~accepted =>
                /\ exit_code = 1 /\ uncaught = ""
                /\ Printed("is not a valid chapter of the Bible")
                /\ ~Has("write") /\ fs.note \in {"absent", "old"}

----
\* Properties of the chapter functions

\* _get_links has returned
LinksDone == cmd = "_get_links" /\ pc = "done"

\* what _get_links returned
Links == calls[Len(calls)].val

\* the place of a book spelled as in the canon, counted from 1
IndexOf(book) == CHOOSE i \in DOMAIN KJV_BIBLE_BOOKS : KJV_BIBLE_BOOKS[i][1] = book

\* C21: for every book of the canon and every chapter of it, the next link
\* is chapter+1 of the book, or chapter 1 of the following book after the
\* book's last chapter, or N/A for Revelation 22; the previous link is
\* chapter-1 of the book, or the last chapter of the preceding book before
\* chapter 1, or N/A for Genesis 1.
C21_AdjacentChapters ==
    (/\ LinksDone
     /\ argv.book \in BookNames
     /\ 1 <= argv.chapter /\ argv.chapter <= ChaptersOf(argv.book)) =>
        LET i == IndexOf(argv.book)
            n == argv.chapter
            this == _format_book_name(argv.book)
        IN  /\ Links[2] =
                 IF n < KJV_BIBLE_BOOKS[i][2] THEN <<"[[", <<this, n + 1>>, "]]">>
                 ELSE IF argv.book = "Revelation" THEN <<"N/A">>
                 ELSE <<"[[", <<_format_book_name(KJV_BIBLE_BOOKS[i + 1][1]), 1>>, "]]">>
            /\ Links[1] =
                 IF n > 1 THEN <<"[[", <<this, n - 1>>, "]]">>
                 ELSE IF argv.book = "Genesis" THEN <<"N/A">>
                 ELSE <<"[[", <<_format_book_name(KJV_BIBLE_BOOKS[i - 1][1]),
                                  KJV_BIBLE_BOOKS[i - 1][2]>>, "]]">>

C21_Witness ==
    /\ LinksDone
    /\ argv = [book |-> "Malachi", chapter |-> 4]
    /\ Links[1] = <<"[[", <<"malachi", 3>>, "]]">>
    /\ Links[2] = <<"[[", <<"matthew", 1>>, "]]">>

----
\* Properties of sanitize_filename and format_hashtags

\* C22: sanitize_filename gives the same result when applied to its own
\* result; the result is never empty and holds only lowercase letters,
\* digits, '-' and '_'; a title with no letter or digit (empty, whitespace
\* only, symbols only) gives "untitled".
C22_SanitizeIdempotent ==
    (cmd = "sanitize_filename" /\ calls # <<>>) =>
        LET once == calls[1].val
        IN  /\ once # <<>>
            /\ \A i \in DOMAIN once : once[i] \in LowerCase \cup Digits \cup {"-", "_"}
            /\ (\A i \in DOMAIN argv.title :
                    argv.title[i] \notin LowerCase \cup UpperCase \cup Digits)
                => once = untitled
            /\ pc = "done" => calls[2].val = once

C22_Witness ==
    /\ cmd = "sanitize_filename" /\ pc = "done"
    /\ argv.title = <<"-", "B", " ", "a">>
    /\ calls[1].val = <<"b", "_", "a">>
    /\ calls[2].val = <<"b", "_", "a">>

\* the places of s where a piece starts: 1 and after every comma
Starts(s) == {1} \cup {i + 1 : i \in {j \in DOMAIN s : s[j] = ","}}

\* the piece of s that starts at place a, without its surrounding blanks
TagAt(s, a) ==
    LET ends == {i \in a..Len(s) : s[i] = ","}
        z == IF ends = {} THEN Len(s) ELSE (CHOOSE i \in ends : \A j \in ends : i <= j) - 1
        inked == {i \in a..z : s[i] \notin Whitespace}
    IN  IF inked = {} THEN <<>>
        ELSE SubSeq(s, CHOOSE i \in inked : \A j \in inked : i <= j,
                       CHOOSE i \in inked : \A j \in inked : j <= i)

RECURSIVE Hashed(_, _)
\* "#" and the tag of each non-blank piece of s from place a on, a blank between
Hashed(s, a) ==
    LET later == {b \in Starts(s) : b > a /\ TagAt(s, b) # <<>>}
        rest == IF later = {} THEN <<>>
                ELSE <<" ">> \o Hashed(s, CHOOSE b \in later : \A c \in later : b <= c)
    IN  <<"#">> \o TagAt(s, a) \o rest

\* C23: format_hashtags gives "" for None and for ""; otherwise the pieces
\* between the commas, trimmed, the empty ones dropped, each with '#' before
\* it, in input order with one blank between them.
C23_FormatHashtags ==
    (cmd = "format_hashtags" /\ pc = "done") =>
        LET result == calls[1].val
        IN  IF argv.hashtags = None THEN result = <<>>
            ELSE LET s == argv.hashtags[1]
                     first == {a \in Starts(s) : TagAt(s, a) # <<>>}
                 IN  result = IF first = {} THEN <<>>
                              ELSE Hashed(s, CHOOSE a \in first : \A b \in first : a <= b)

C23_Witness ==
    /\ cmd = "format_hashtags" /\ pc = "done"
    /\ argv.hashtags = Some(<<"a", ",", " ", ",", "b">>)
    /\ calls[1].val = <<"#", "a", " ", "#", "b">>

----
\* Properties of daily_exists

\* C24: called with the daily note's path alone, as empty calls it,
\* daily_exists returns True when today's daily note exists and False when it
\* does not, raising nothing.
C24_DailyExistsSingleArgument ==
    (cmd = "empty" /\ Has("daily_exists")) =>
        /\ Results("daily_exists") = {IF fs.daily THEN "True" ELSE "False"}
        /\ uncaught = ""

----
\* Properties of the weekly and monthly keys

\* weekly has computed its key and its links on a day whose neighbours one
\* week away are in the same year
WeeklyWithinYear ==
    /\ cmd = "weekly" /\ pc = "done"
    /\ AddDays(argv.now, -7).y = argv.now.y
    /\ AddDays(argv.now, 7).y = argv.now.y

\* the key, the Previous Week link, the Next Week link of the run
Key == calls[1].val

PreviousLink == calls[2].val[1]

NextLink == calls[2].val[2]

\* the number a week string stands for
WeekOf(k) == IF Len(k.week) = 1 THEN k.week[1] ELSE int(k.week)

\* C25 as stated: within a year the Next Week link of a weekly note equals
\* the note's own key, the Previous Week link is the key two weeks before
\* it, and is not the key under which the previous week's note was created.
C25_NextWeekLinkIsOwnKey ==
    WeeklyWithinYear =>
        /\ NextLink = Key
        /\ PreviousLink = WeekKey(str(WeekOf(Key) - 2), Key.year)
        /\ PreviousLink # this_week(AddDays(argv.now, -7))

\* C25: the key is week number + 1 without padding, the links are the
\* two-digit week numbers of the days one week away; within a year the Next
\* Week link carries the number of the note's own key, the Previous Week
\* link the number two below it, which is not the number of the previous
\* week's note; as text a link equals the key of its number only from 10 on.
C25_NextWeekLinkHasOwnNumber ==
    WeeklyWithinYear =>
        /\ Key = WeekKey(str(WeekNumber(argv.now) + 1), argv.now.y)
        /\ NextLink.year = Key.year /\ PreviousLink.year = Key.year
        /\ Len(NextLink.week) = 2 /\ Len(PreviousLink.week) = 2
        /\ WeekOf(NextLink) = WeekOf(Key)
        /\ WeekOf(PreviousLink) = WeekOf(Key) - 2
        /\ WeekOf(PreviousLink) # WeekOf(this_week(AddDays(argv.now, -7)))
        /\ PreviousLink # this_week(AddDays(argv.now, -7))
        /\ NextLink = Key <=> WeekOf(Key) >= 10
        /\ PreviousLink = WeekKey(str(WeekOf(Key) - 2), Key.year) <=> WeekOf(Key) >= 12

C25_Witness ==
    /\ WeeklyWithinYear
    /\ argv.now = [y |-> 2025, m |-> 2, d |-> 4]
    /\ Key = WeekKey(<<6>>, 2025)
    /\ NextLink = WeekKey(<<0, 6>>, 2025)
    /\ PreviousLink = WeekKey(<<0, 4>>, 2025)

\* the first day of the month before / after the month of t
MonthBefore(t) ==
    IF t.m = 1 THEN [y |-> t.y - 1, m |-> 12, d |-> 1] ELSE [y |-> t.y, m |-> t.m - 1, d |-> 1]

MonthAfter(t) ==
    IF t.m = 12 THEN [y |-> t.y + 1, m |-> 1, d |-> 1] ELSE [y |-> t.y, m |-> t.m + 1, d |-> 1]

\* C30: on every day, the Previous Month link of the monthly note is the key
\* of the calendar month before the current one and the Next Month link the
\* key of the calendar month after it.
C30_MonthLinksAreNeighbours ==
    (cmd = "monthly" /\ pc = "done") =>
        /\ PreviousLink = MonthKey(MonthBefore(argv.now))
        /\ NextLink = MonthKey(MonthAfter(argv.now))

----
\* Failure reports of sync

\* The messages of the step-specific handlers (sb.py:89,97,111).
StepReports == {"Failed to fetch from remote", "Rebase failed", "Push failed"}

\* Every message that reports a failure of the run (sb.py:89,97,111,118,121,124).
FailureReports ==
    StepReports \cup {"not a valid git repository", "Git command failed", "Unexpected error"}

\* C26: when fetch, rebase or push fails and its step-specific handler reports
\* it, that report is the only failure report of the run: the outer handler's
\* "Unexpected error" is not printed in addition to it.
C26_SingleFailureReport ==
    (SyncDone /\ \E m \in StepReports : Printed(m)) =>
        /\ ~Printed("Unexpected error")
        /\ Len(SelectSeq(out, LAMBDA l : l.msg \in FailureReports)) = 1

----
\* Letter case of book names

\* the canon's spelling of a book written in any letter case
Canonical(book) ==
    KJV_BIBLE_BOOKS[CHOOSE i \in DOMAIN KJV_BIBLE_BOOKS :
                        lower(KJV_BIBLE_BOOKS[i][1]) = lower(book)][1]

\* the book is one of the canon, whatever its letter case
InCanonAnyCase(book) ==
    \E i \in DOMAIN KJV_BIBLE_BOOKS : lower(KJV_BIBLE_BOOKS[i][1]) = lower(book)

\* the adjacent-chapter and testament/genre lookups do not depend on the
\* letter case of the book
LookupsIgnoreCase ==
    (LinksDone /\ InCanonAnyCase(argv.book)) =>
        Links = _get_links(Canonical(argv.book), argv.chapter)

\* C29: for every book of the canon written in any letter case and every
\* chapter of that book, chapter validation returns true without raising,
\* and the adjacent-chapter and testament/genre lookups give the result they
\* give for the canon's spelling.
C29_AnyLetterCase ==
    /\ (/\ cmd = "_is_valid_chapter" /\ pc = "done"
        /\ InCanonAnyCase(argv.book)
        /\ 1 <= argv.chapter /\ argv.chapter <= ChaptersOf(Canonical(argv.book))) =>
            /\ calls[Len(calls)].res = "True"
            /\ uncaught = ""
    /\ LookupsIgnoreCase

----
\* The commit sync creates

\* C27: for every dirty repository, also one whose only changes were staged
\* in the index before sync ran, the number of files sync reports as
\* committed is the number of files whose changes are in the commit it
\* created.
C27_ReportedCountIsCommitted ==
    (cmd = "sync" /\ Printed("Committed")) =>
        Lines("Committed")[1].n = repo.committed

\* the run committed local changes and then failed at fetch, rebase or push
FailedAfterCommit == SyncDone /\ Ok("commit") /\ exit_code = 1

\* the abort of the rebase was attempted and failed
AbortFailed == \E r \in GitExc : r \in Results("rebase --abort")

\* the rebase failed with an exception its handler does not catch, so that
\* no abort was attempted
RebaseUnhandled == \E r \in GitExc : ~RebaseCaught(r) /\ r \in Results("rebase")

====
